---- MODULE Spec2Model ----
(***************************************************************************)
(* Model of Daily_Report_Processor.py: the text normalizer                 *)
(* (clean_dish_name), the file ingestor (merge_files), the reconciliation  *)
(* and derivation engine (process_report), the exporter (export_to_excel)  *)
(* and the control flow of main.                                           *)
(*                                                                         *)
(* A Python str is a sequence of one-character strings.  A Python value    *)
(* that may or may not be a str (a cell of the Dishes column) is a record  *)
(* [type, val]: type is the Python type name, val the characters.          *)
(***************************************************************************)
EXTENDS Integers, Sequences, FiniteSets, TLC

VARIABLES text, result, calls,
          folderOk, files, pc, idx, all_dfs, reads, log, df_raw, views,
          workbook, error

normVars == <<text, result, calls>>
mainVars == <<folderOk, files, pc, idx, all_dfs, reads, log, df_raw, views, workbook, error>>
vars == <<text, result, calls,
          folderOk, files, pc, idx, all_dfs, reads, log, df_raw, views,
          workbook, error>>

(***************************************************************************)
(* Bounds of the model.                                                    *)
(***************************************************************************)
MaxLen == 3

MaxFiles == 2

MaxFileRows == 1

MaxRows == 3

(***************************************************************************)
(* Python values.                                                          *)
(***************************************************************************)
PyStr(s) == [type |-> "str", val |-> s]

NaN == [type |-> "float", val |-> <<"n", "a", "n">>]

PyInt == [type |-> "int", val |-> <<"3">>]

PyNone == [type |-> "NoneType", val |-> <<"N", "o", "n", "e">>]

Raised(exc) == [type |-> exc, val |-> <<>>]

(***************************************************************************)
(* clean_dish_name                                                         *)
(***************************************************************************)
Digits == {"0", "1", "2", "3", "4", "5", "6", "7", "8", "9"}

Whitespace == {" ", "\t", "\n", "\r", "\f"}

LowerCase == <<"a", "b", "c", "d", "e", "f", "g", "h", "i", "j", "k", "l", "m",
               "n", "o", "p", "q", "r", "s", "t", "u", "v", "w", "x", "y", "z">>

UpperCase == <<"A", "B", "C", "D", "E", "F", "G", "H", "I", "J", "K", "L", "M",
               "N", "O", "P", "Q", "R", "S", "T", "U", "V", "W", "X", "Y", "Z">>

\* str.upper on one character
UpperChar(c) ==
    IF \E i \in DOMAIN LowerCase : LowerCase[i] = c
    THEN UpperCase[CHOOSE i \in DOMAIN LowerCase : LowerCase[i] = c]
    ELSE c

\* str.upper
Upper(s) == [i \in 1..Len(s) |-> UpperChar(s[i])]

\* str.replace(key, val) for a non-empty key: every non-overlapping
\* occurrence, scanning left to right
RECURSIVE ReplaceFrom(_, _, _, _)
ReplaceFrom(s, key, val, i) ==
    IF i > Len(s) THEN <<>>
    ELSE IF i + Len(key) - 1 <= Len(s) /\ SubSeq(s, i, i + Len(key) - 1) = key
         THEN val \o ReplaceFrom(s, key, val, i + Len(key))
         ELSE <<s[i]>> \o ReplaceFrom(s, key, val, i + 1)

Replace(s, key, val) == ReplaceFrom(s, key, val, 1)

\* the characters removed first, in the order of the loop
removed_chars == <<"(", ")", ".", "@">>

\* the replacements dict, in insertion order
replacements ==
    << <<(<<"W", "/">>), (<<"W", "I", "T", "H">>)>>,
       <<(<<"&">>), (<<"A", "N", "D">>)>>,
       <<(<<" ", "W", "I", "T", " ">>), (<<" ", "W", "I", "T", "H", " ">>)>>,
       <<(<<"\\", "n">>), (<<" ">>)>>,
       <<(<<"P", "C", "S">>), (<<>>)>> >>

\* for ch in [...]: text = text.replace(ch, '')
RECURSIVE RemoveChars(_, _)
RemoveChars(s, k) ==
    IF k > Len(removed_chars) THEN s
    ELSE RemoveChars(Replace(s, <<removed_chars[k]>>, <<>>), k + 1)

\* for key, val in replacements.items(): text = text.replace(key, val)
RECURSIVE ApplyReplacements(_, _)
ApplyReplacements(s, k) ==
    IF k > Len(replacements) THEN s
    ELSE ApplyReplacements(Replace(s, replacements[k][1], replacements[k][2]), k + 1)

\* ''.join(c for c in text if not c.isdigit())
RemoveDigits(s) == SelectSeq(s, LAMBDA c : c \notin Digits)

\* str.split(): the maximal runs of non-whitespace characters
RECURSIVE SplitFrom(_, _, _)
SplitFrom(s, i, word) ==
    IF i > Len(s) THEN (IF word = <<>> THEN <<>> ELSE <<word>>)
    ELSE IF s[i] \in Whitespace
         THEN (IF word = <<>> THEN <<>> ELSE <<word>>) \o SplitFrom(s, i + 1, <<>>)
         ELSE SplitFrom(s, i + 1, Append(word, s[i]))

Split(s) == SplitFrom(s, 1, <<>>)

\* ' '.join(words)
RECURSIVE Join(_)
Join(words) ==
    IF words = <<>> THEN <<>>
    ELSE IF Len(words) = 1 THEN words[1]
    ELSE words[1] \o <<" ">> \o Join(Tail(words))

\* the body of clean_dish_name once the argument is known to be a str
CleanStr(s) ==
    Join(Split(Upper(RemoveDigits(ApplyReplacements(RemoveChars(s, 1), 1)))))

\* clean_dish_name without the isinstance guard: str.replace on a non-str
clean_dish_name_unguarded(v) ==
    IF v.type # "str" THEN Raised("AttributeError") ELSE PyStr(CleanStr(v.val))

\* clean_dish_name that forgets to remove the digits
clean_dish_name_keeps_digits(v) ==
    IF v.type # "str" THEN PyStr(<<>>)
    ELSE PyStr(Join(Split(Upper(ApplyReplacements(RemoveChars(v.val, 1), 1)))))

clean_dish_name(v) ==
    IF v.type # "str" THEN PyStr(<<>>) ELSE PyStr(CleanStr(v.val))

(***************************************************************************)
(* Inputs of the normalizer.                                               *)
(***************************************************************************)
Alphabet == {"w", "W", "/", "&", "P", "C", "S", "1", " ", "."}

RECURSIVE StringsOfLen(_)
StringsOfLen(n) ==
    IF n = 0 THEN {<<>>}
    ELSE {Append(s, c) : s \in StringsOfLen(n - 1), c \in Alphabet}

BoundedStrings == UNION {StringsOfLen(n) : n \in 0..MaxLen}

BurgerInput ==
    <<"B", "u", "r", "g", "e", "r", " ", "W", "/", " ", "C", "h", "e", "e", "s", "e",
      " ", "&", " ", "F", "r", "i", "e", "s", " ", "(", "2", ")", " ", "P", "C", "S",
      " ", "3">>

BurgerClaimed ==
    <<"B", "U", "R", "G", "E", "R", " ", "W", "I", "T", "H", " ", "C", "H", "E", "E",
      "S", "E", " ", "A", "N", "D", " ", "F", "R", "I", "E", "S", " ", "F", "R", "I",
      "E", "S">>

BurgerTraced ==
    <<"B", "U", "R", "G", "E", "R", " ", "W", "I", "T", "H", " ", "C", "H", "E", "E",
      "S", "E", " ", "A", "N", "D", " ", "F", "R", "I", "E", "S">>

NormInputs ==
    {PyStr(s) : s \in BoundedStrings} \cup {PyStr(BurgerInput), NaN, PyInt, PyNone}

(***************************************************************************)
(* Tables (pandas DataFrames): an ordered list of column names and an      *)
(* ordered list of rows, each row a function from the column names to      *)
(* cells.  A cell of the Dishes column is a Python value; every other raw  *)
(* cell is the text read from the file, "NaN" for a blank field.           *)
(***************************************************************************)
Range(s) == {s[i] : i \in DOMAIN s}

EmptyDF == [columns |-> <<>>, rows |-> <<>>]

\* an emptiness test that looks at the columns only
IsEmptyNoColumns(df) == Len(df.columns) = 0

\* DataFrame.empty: any axis of length 0
IsEmpty(df) == Len(df.columns) = 0 \/ Len(df.rows) = 0

\* the missing-value marker of a column
Blank(col) == IF col = "Dishes" THEN NaN ELSE "NaN"

fields_to_fill == <<"Date", "POS Name", "Cashier Name", "Transaction No">>

dish_columns ==
    <<"OR No", "DateTime", "Date", "POS Name", "Cashier Name", "Transaction No",
      "Dishes", "Dish Quantities">>

\* Series.ffill, top to bottom, carrying the last non-blank value
RECURSIVE FFillFrom(_, _, _, _)
FFillFrom(rows, col, i, last) ==
    IF i > Len(rows) THEN <<>>
    ELSE LET v == IF rows[i][col] = Blank(col) THEN last ELSE rows[i][col]
         IN  <<v>> \o FFillFrom(rows, col, i + 1, v)

\* a fill that leaves every blank as it is
FFillNothing(rows, col) == [i \in 1..Len(rows) |-> rows[i][col]]

FFillColumn(rows, col) == FFillFrom(rows, col, 1, Blank(col))

\* df[cols] = df[cols].ffill()
FFill(df, cols) ==
    [df EXCEPT !.rows =
        [i \in 1..Len(df.rows) |->
            [c \in DOMAIN df.rows[i] |->
                IF c \in Range(cols) THEN FFillColumn(df.rows, c)[i]
                ELSE df.rows[i][c]]]]

\* df.drop(columns=cols, errors='ignore')
DropColumns(df, cols) ==
    [columns |-> SelectSeq(df.columns, LAMBDA c : c \notin cols),
     rows |-> [i \in 1..Len(df.rows) |->
                  [c \in (DOMAIN df.rows[i]) \ cols |-> df.rows[i][c]]]]

\* pd.to_datetime(value, errors='coerce'): the timestamps the model's
\* inputs can spell; any other text, and a blank, is NaT
NaT == [date |-> "NaT", time |-> "NaT"]

to_datetime(v) ==
    IF v = "2024-01-05 10:30" THEN [date |-> "2024-01-05", time |-> "10:30"]
    ELSE IF v = "2024-01-06 18:45" THEN [date |-> "2024-01-06", time |-> "18:45"]
    ELSE NaT

\* Series.dt.date of one timestamp
DatePart(ts) == ts.date

\* df.insert(loc, name, values), loc counted from 0
InsertColumn(df, loc, name, values) ==
    [columns |-> SubSeq(df.columns, 1, loc) \o <<name>>
                 \o SubSeq(df.columns, loc + 1, Len(df.columns)),
     rows |-> [i \in 1..Len(df.rows) |->
                  [c \in (DOMAIN df.rows[i]) \cup {name} |->
                      IF c = name THEN values[i] ELSE df.rows[i][c]]]]

\* df[col] = values, for a column that exists
AssignColumn(df, col, values) ==
    [df EXCEPT !.rows =
        [i \in 1..Len(df.rows) |-> [df.rows[i] EXCEPT ![col] = values[i]]]]

\* drop_duplicates that keeps the last row of each key
DropDuplicatesKeepLast(df, key) ==
    LET keep(i) == \A j \in (i + 1)..Len(df.rows) : df.rows[j][key] # df.rows[i][key]
        RECURSIVE Pick(_)
        Pick(i) == IF i > Len(df.rows) THEN <<>>
                   ELSE (IF keep(i) THEN <<df.rows[i]>> ELSE <<>>) \o Pick(i + 1)
    IN  [df EXCEPT !.rows = Pick(1)]

\* df.drop_duplicates(key): the first row of each key, in the original order
DropDuplicates(df, key) ==
    LET RECURSIVE Pick(_, _)
        Pick(i, seen) ==
            IF i > Len(df.rows) THEN <<>>
            ELSE IF df.rows[i][key] \in seen THEN Pick(i + 1, seen)
                 ELSE <<df.rows[i]>> \o Pick(i + 1, seen \cup {df.rows[i][key]})
    IN  [df EXCEPT !.rows = Pick(1, {})]

\* df[cols] for columns that all exist
Project(df, cols) ==
    [columns |-> cols,
     rows |-> [i \in 1..Len(df.rows) |-> [c \in Range(cols) |-> df.rows[i][c]]]]

\* the item view taken from the deduplicated rows
ItemViewDeduplicated(df) == Project(DropDuplicates(df, "OR No"), dish_columns)

\* df[dish_columns].copy()
ItemView(df) == Project(df, dish_columns)

\* the union of the frames' columns, in order of first appearance
RECURSIVE UnionColumns(_, _)
UnionColumns(dfs, acc) ==
    IF dfs = <<>> THEN acc
    ELSE UnionColumns(Tail(dfs),
                      acc \o SelectSeq(Head(dfs).columns, LAMBDA c : c \notin Range(acc)))

RECURSIVE ConcatRows(_, _)
ConcatRows(dfs, cols) ==
    IF dfs = <<>> THEN <<>>
    ELSE [i \in 1..Len(Head(dfs).rows) |->
             [c \in Range(cols) |->
                 IF c \in DOMAIN Head(dfs).rows[i] THEN Head(dfs).rows[i][c]
                 ELSE Blank(c)]]
         \o ConcatRows(Tail(dfs), cols)

\* a concat that also drops the rows equal to an earlier row
ConcatDistinct(dfs) ==
    LET cols == UnionColumns(dfs, <<>>)
        all == ConcatRows(dfs, cols)
        RECURSIVE Pick(_)
        Pick(i) == IF i > Len(all) THEN <<>>
                   ELSE (IF \E j \in 1..(i - 1) : all[j] = all[i] THEN <<>> ELSE <<all[i]>>)
                        \o Pick(i + 1)
    IN  [columns |-> cols, rows |-> Pick(1)]

\* pd.concat(dfs, ignore_index=True): rows are numbered by their position
Concat(dfs) ==
    LET cols == UnionColumns(dfs, <<>>)
    IN  [columns |-> cols, rows |-> ConcatRows(dfs, cols)]

(***************************************************************************)
(* process_report.  The outcome is a record: ok tells whether the function *)
(* returned, error names the exception it raised otherwise, input is the   *)
(* caller's frame as the function leaves it (the forward fill assigns into *)
(* the frame it was given), and report, transactions, dishes are the three *)
(* frames returned.                                                        *)
(***************************************************************************)
ReportRaises(exc, input) ==
    [ok |-> FALSE, error |-> exc, input |-> input,
     report |-> EmptyDF, transactions |-> EmptyDF, dishes |-> EmptyDF]

\* the frame after the fill, the drop, the DateTime and Date derivation and
\* the cleaning of the dish names
Derive(filled) ==
    LET dropped == DropColumns(filled, {"No data found"})
        stamps == [i \in 1..Len(dropped.rows) |-> to_datetime(dropped.rows[i]["Date"])]
        stamped == InsertColumn(dropped, 1, "DateTime", stamps)
        dated == AssignColumn(stamped, "Date",
                     [i \in 1..Len(dropped.rows) |->
                         DatePart(to_datetime(dropped.rows[i]["Date"]))])
    IN  IF "Dishes" \in Range(dated.columns)
        THEN AssignColumn(dated, "Dishes",
                 [i \in 1..Len(dated.rows) |-> clean_dish_name(dated.rows[i]["Dishes"])])
        ELSE dated

\* process_report whose item view takes the columns that exist
process_report_tolerant(df) ==
    IF ~(Range(fields_to_fill) \subseteq Range(df.columns))
    THEN ReportRaises("KeyError", df)
    ELSE LET filled == FFill(df, fields_to_fill)
         IN  IF "DateTime" \in Range(filled.columns)
             THEN ReportRaises("ValueError", filled)
             ELSE LET report == Derive(filled)
                  IN  IF "OR No" \notin Range(report.columns)
                      THEN ReportRaises("KeyError", filled)
                      ELSE [ok |-> TRUE, error |-> "None", input |-> filled,
                            report |-> report,
                            transactions |->
                                DropColumns(DropDuplicates(report, "OR No"),
                                            {"Dishes", "Dish Quantities"}),
                            dishes |->
                                Project(report,
                                    SelectSeq(dish_columns,
                                        LAMBDA c : c \in Range(report.columns)))]

process_report(df) ==
    IF ~(Range(fields_to_fill) \subseteq Range(df.columns))
    THEN ReportRaises("KeyError", df)
    ELSE LET filled == FFill(df, fields_to_fill)
         IN  IF "DateTime" \in Range(filled.columns)
             THEN ReportRaises("ValueError", filled)
             ELSE LET report == Derive(filled)
                  IN  IF "OR No" \notin Range(report.columns)
                      THEN ReportRaises("KeyError", filled)
                      ELSE IF ~(Range(dish_columns) \subseteq Range(report.columns))
                      THEN ReportRaises("KeyError", filled)
                      ELSE [ok |-> TRUE, error |-> "None", input |-> filled,
                            report |-> report,
                            transactions |->
                                DropColumns(DropDuplicates(report, "OR No"),
                                            {"Dishes", "Dish Quantities"}),
                            dishes |-> ItemView(report)]

(***************************************************************************)
(* export_to_excel: a sheet is the header row and the rows' cells in       *)
(* column order, without the row index.                                    *)
(***************************************************************************)
Sheet(df) ==
    [header |-> df.columns,
     cells |-> [i \in 1..Len(df.rows) |->
                   [k \in 1..Len(df.columns) |-> df.rows[i][df.columns[k]]]]]

NoWorkbook == [written |-> FALSE, sheets |-> <<>>]

NoViews ==
    [returned |-> FALSE, report |-> EmptyDF, transactions |-> EmptyDF, dishes |-> EmptyDF]

(***************************************************************************)
(* The folder: the .xls files in glob order (none when the path is not an *)
(* existing directory).  outcome is what reading the                       *)
(* file does: "gbk" parses under GBK; "utf8" fails to decode as GBK and    *)
(* parses under UTF-8; "undecodable" fails to decode as GBK and the UTF-8  *)
(* read raises too; "error" raises another exception on the first read.    *)
(* columns and rows are the header (line 3) and the data lines of a file   *)
(* that parses.                                                            *)
(***************************************************************************)
FileNames == <<"a.xls", "b.xls", "c.xls", "d.xls">>

FullColumns ==
    <<"Date", "POS Name", "Cashier Name", "Transaction No", "OR No", "Dishes",
      "Dish Quantities", "Amount">>

RequiredColumns ==
    {"Date", "POS Name", "Cashier Name", "Transaction No", "OR No", "Dishes",
     "Dish Quantities"}

Without(col) == SelectSeq(FullColumns, LAMBDA c : c # col)

WithNoData == FullColumns \o <<"No data found">>

AllLayouts == {FullColumns, WithNoData} \cup {Without(c) : c \in RequiredColumns}

RowOf(date, pos, cashier, txno, orno, dish) ==
    [c \in Range(WithNoData) |->
        CASE c = "Date" -> date
          [] c = "POS Name" -> pos
          [] c = "Cashier Name" -> cashier
          [] c = "Transaction No" -> txno
          [] c = "OR No" -> orno
          [] c = "Dishes" -> dish
          [] c = "Dish Quantities" -> "1"
          [] c = "Amount" -> "10"
          [] OTHER -> "NaN"]

Headers ==
    { <<"2024-01-05 10:30", "POS1", "Ann", "7">>,
      <<"2024-01-06 18:45", "POS2", "Ben", "8">>,
      <<"NaN", "NaN", "NaN", "NaN">>,
      <<"NaN", "POS2", "NaN", "8">>,
      <<"Total", "NaN", "NaN", "NaN">> }

Orders ==
    { <<"1", PyStr(<<"w", "/", " ", "a", "2">>)>>,
      <<"2", NaN>> }

RichPool == {RowOf(h[1], h[2], h[3], h[4], o[1], o[2]) : h \in Headers, o \in Orders}

SmallPool ==
    { RowOf("2024-01-05 10:30", "POS1", "Ann", "7", "1", PyStr(<<"w", "/", " ", "a", "2">>)),
      RowOf("NaN", "NaN", "NaN", "NaN", "1", NaN) }

SeqsOf(S, lo, hi) == UNION {[1..n -> S] : n \in lo..hi}

Restrict(row, cols) == [c \in Range(cols) |-> row[c]]

ParsedContents(outcomes, layouts, pool, lo, hi) ==
    {[outcome |-> oc, columns |-> cols,
      rows |-> [i \in 1..Len(rs) |-> Restrict(rs[i], cols)]] :
        oc \in outcomes, cols \in layouts, rs \in SeqsOf(pool, lo, hi)}

FailedContents ==
    {[outcome |-> oc, columns |-> <<>>, rows |-> <<>>] : oc \in {"error", "undecodable"}}

Folder(contents) ==
    [k \in 1..Len(contents) |->
        [name |-> FileNames[k], outcome |-> contents[k].outcome,
         columns |-> contents[k].columns, rows |-> contents[k].rows]]

\* several files, few rows: every mix of outcomes, two layouts
FoldersOfMany ==
    {Folder(cs) :
        cs \in SeqsOf(ParsedContents({"gbk"}, {FullColumns, Without("Dishes")},
                                     SmallPool, 0, MaxFileRows)
                       \cup ParsedContents({"utf8"}, {FullColumns}, SmallPool, 0, MaxFileRows)
                       \cup FailedContents,
                      0, MaxFiles)}

\* one file that parses, many rows
FoldersOfOneLong ==
    {Folder(<<c>>) : c \in ParsedContents({"gbk"}, {FullColumns}, RichPool, 1, MaxRows)}

\* one file that parses, every layout
FoldersOfOneLayout ==
    {Folder(<<c>>) : c \in ParsedContents({"gbk"}, AllLayouts, SmallPool, 1, 1)}

(***************************************************************************)
(* main, merge_files, process_report and export_to_excel as a state        *)
(* machine.  pc: "main" before the folder check, "merge_files" inside the  *)
(* loop over the files, "merged" when merge_files has returned, "export"   *)
(* when process_report has returned, "done" after the workbook is written, *)
(* "exit" after an early return of main, "raised" when an exception has    *)
(* propagated out of main (error names it).                                *)
(***************************************************************************)
NormIdle ==
    /\ text = PyStr(<<>>)
    /\ result = PyStr(<<>>)
    /\ calls = 0

Init ==
    /\ NormIdle
    /\ \/ folderOk = FALSE /\ files = <<>>
       \/ folderOk = TRUE /\ files \in FoldersOfMany
       \/ folderOk = TRUE /\ files \in FoldersOfOneLong
       \/ folderOk = TRUE /\ files \in FoldersOfOneLayout
    /\ pc = "main"
    /\ idx = 0
    /\ all_dfs = <<>>
    /\ reads = <<>>
    /\ log = <<>>
    /\ df_raw = EmptyDF
    /\ views = NoViews
    /\ workbook = NoWorkbook
    /\ error = "None"

FrameOf(file) == [columns |-> file.columns, rows |-> file.rows]

ReadCall(file, encoding) == [file |-> file.name, encoding |-> encoding]

\* main: the folder does not exist or is not a directory
MainInvalidFolder ==
    /\ pc = "main"
    /\ ~folderOk
    /\ log' = Append(log, [level |-> "ERROR", about |-> "folder"])
    /\ pc' = "exit"
    /\ UNCHANGED <<folderOk, files, idx, all_dfs, reads, df_raw, views, workbook, error>>
    /\ UNCHANGED normVars

\* main calls merge_files
MainCallsMergeFiles ==
    /\ pc = "main"
    /\ folderOk
    /\ pc' = "merge_files"
    /\ idx' = 1
    /\ all_dfs' = <<>>
    /\ UNCHANGED <<folderOk, files, reads, log, df_raw, views, workbook, error>>
    /\ UNCHANGED normVars

\* one iteration: the GBK read parses
ReadFileGbk ==
    /\ pc = "merge_files"
    /\ idx <= Len(files)
    /\ files[idx].outcome = "gbk"
    /\ reads' = Append(reads, ReadCall(files[idx], "gbk"))
    /\ all_dfs' = Append(all_dfs, FrameOf(files[idx]))
    /\ idx' = idx + 1
    /\ UNCHANGED <<folderOk, files, pc, log, df_raw, views, workbook, error>>
    /\ UNCHANGED normVars

\* one iteration: UnicodeDecodeError under GBK, the UTF-8 read parses
ReadFileUtf8 ==
    /\ pc = "merge_files"
    /\ idx <= Len(files)
    /\ files[idx].outcome = "utf8"
    /\ reads' = reads \o <<ReadCall(files[idx], "gbk"), ReadCall(files[idx], "utf-8")>>
    /\ all_dfs' = Append(all_dfs, FrameOf(files[idx]))
    /\ idx' = idx + 1
    /\ UNCHANGED <<folderOk, files, pc, log, df_raw, views, workbook, error>>
    /\ UNCHANGED normVars

\* one iteration: another exception under GBK, printed and skipped
ReadFileError ==
    /\ pc = "merge_files"
    /\ idx <= Len(files)
    /\ files[idx].outcome = "error"
    /\ reads' = Append(reads, ReadCall(files[idx], "gbk"))
    /\ log' = Append(log, [level |-> "ERROR", about |-> files[idx].name])
    /\ idx' = idx + 1
    /\ UNCHANGED <<folderOk, files, pc, all_dfs, df_raw, views, workbook, error>>
    /\ UNCHANGED normVars

\* one iteration: UnicodeDecodeError under GBK, and the UTF-8 read, made
\* inside the except clause, raises: no clause of the same try catches it
ReadFileRetryRaises ==
    /\ pc = "merge_files"
    /\ idx <= Len(files)
    /\ files[idx].outcome = "undecodable"
    /\ reads' = reads \o <<ReadCall(files[idx], "gbk"), ReadCall(files[idx], "utf-8")>>
    /\ error' = "UnicodeDecodeError"
    /\ pc' = "raised"
    /\ UNCHANGED <<folderOk, files, idx, all_dfs, log, df_raw, views, workbook>>
    /\ UNCHANGED normVars

\* the loop is over: merge_files returns the concatenation
MergeFilesReturns ==
    /\ pc = "merge_files"
    /\ idx > Len(files)
    /\ df_raw' = IF all_dfs # <<>> THEN Concat(all_dfs) ELSE EmptyDF
    /\ pc' = "merged"
    /\ UNCHANGED <<folderOk, files, idx, all_dfs, reads, log, views, workbook, error>>
    /\ UNCHANGED normVars

\* main: df_raw.empty
MainWarnsEmpty ==
    /\ pc = "merged"
    /\ IsEmpty(df_raw)
    /\ log' = Append(log, [level |-> "WARNING", about |-> "folder"])
    /\ pc' = "exit"
    /\ UNCHANGED <<folderOk, files, idx, all_dfs, reads, df_raw, views, workbook, error>>
    /\ UNCHANGED normVars

\* main: process_report returns the three frames
ProcessReportReturns ==
    /\ pc = "merged"
    /\ ~IsEmpty(df_raw)
    /\ LET out == process_report(df_raw)
       IN  /\ out.ok
           /\ df_raw' = out.input
           /\ views' = [returned |-> TRUE, report |-> out.report,
                        transactions |-> out.transactions, dishes |-> out.dishes]
    /\ pc' = "export"
    /\ UNCHANGED <<folderOk, files, idx, all_dfs, reads, log, workbook, error>>
    /\ UNCHANGED normVars

\* main: process_report raises
ProcessReportRaises ==
    /\ pc = "merged"
    /\ ~IsEmpty(df_raw)
    /\ LET out == process_report(df_raw)
       IN  /\ ~out.ok
           /\ df_raw' = out.input
           /\ error' = out.error
    /\ pc' = "raised"
    /\ UNCHANGED <<folderOk, files, idx, all_dfs, reads, log, views, workbook>>
    /\ UNCHANGED normVars

\* main: export_to_excel writes the three sheets
ExportToExcel ==
    /\ pc = "export"
    /\ workbook' = [written |-> TRUE,
                    sheets |-> << <<"DailyReport", Sheet(views.report)>>,
                                  <<"Transactions", Sheet(views.transactions)>>,
                                  <<"Dishes", Sheet(views.dishes)>> >>]
    /\ log' = Append(log, [level |-> "INFO", about |-> "Daily_Report.xlsx"])
    /\ pc' = "done"
    /\ UNCHANGED <<folderOk, files, idx, all_dfs, reads, df_raw, views, error>>
    /\ UNCHANGED normVars

\* main: the write fails (unwritable folder, disk full)
ExportRaises ==
    /\ pc = "export"
    /\ error' = "OSError"
    /\ pc' = "raised"
    /\ UNCHANGED <<folderOk, files, idx, all_dfs, reads, log, df_raw, views, workbook>>
    /\ UNCHANGED normVars

Next ==
    \/ MainInvalidFolder
    \/ MainCallsMergeFiles
    \/ ReadFileGbk
    \/ ReadFileUtf8
    \/ ReadFileError
    \/ ReadFileRetryRaises
    \/ MergeFilesReturns
    \/ MainWarnsEmpty
    \/ ProcessReportReturns
    \/ ProcessReportRaises
    \/ ExportToExcel
    \/ ExportRaises

Spec == Init /\ [][Next]_vars

(***************************************************************************)
(* The normalizer on its own: clean_dish_name applied to an input, then    *)
(* to its own output.  text is the argument of the latest call and result  *)
(* what that call returned.                                                *)
(***************************************************************************)
MainIdle ==
    /\ folderOk = TRUE
    /\ files = <<>>
    /\ pc = "main"
    /\ idx = 0
    /\ all_dfs = <<>>
    /\ reads = <<>>
    /\ log = <<>>
    /\ df_raw = EmptyDF
    /\ views = NoViews
    /\ workbook = NoWorkbook
    /\ error = "None"

InitNorm ==
    /\ MainIdle
    /\ text \in NormInputs
    /\ result = PyStr(<<>>)
    /\ calls = 0

CleanDishName ==
    /\ calls = 0
    /\ result' = clean_dish_name(text)
    /\ calls' = 1
    /\ UNCHANGED text
    /\ UNCHANGED mainVars

CleanDishNameAgain ==
    /\ calls = 1
    /\ text' = result
    /\ result' = clean_dish_name(result)
    /\ calls' = 2
    /\ UNCHANGED mainVars

NextNorm ==
    \/ CleanDishName
    \/ CleanDishNameAgain

SpecNorm == InitNorm /\ [][NextNorm]_vars

(***************************************************************************)
(* Properties of the normalizer, checked under SpecNorm.                   *)
(***************************************************************************)

\* C1: clean_dish_name is idempotent: applied to its own output it returns
\* that output unchanged.
C1_Idempotent == calls = 2 => result = text

\* C8 as stated: the normalizer maps "Burger W/ Cheese & Fries (2) PCS 3" to
\* "BURGER WITH CHEESE AND FRIES FRIES".
C8_BurgerAsStated ==
    (calls = 1 /\ text = PyStr(BurgerInput)) => result = PyStr(BurgerClaimed)

\* C8 amended: the normalizer maps "Burger W/ Cheese & Fries (2) PCS 3" to
\* "BURGER WITH CHEESE AND FRIES".
C8_BurgerAmended ==
    (calls = 1 /\ text = PyStr(BurgerInput)) => result = PyStr(BurgerTraced)

C8_Witness == calls = 1 /\ text = PyStr(BurgerInput) /\ result.type = "str"

\* C10: clean_dish_name is total: it never raises, it returns a str for
\* every input, and the empty str for every input that is not a str.
C10_Total ==
    calls >= 1 =>
        /\ result.type = "str"
        /\ text.type # "str" => result = PyStr(<<>>)

C10_Witness == calls = 1 /\ text = NaN /\ result = PyStr(<<>>)

(***************************************************************************)
(* The input folder as the properties read it.                             *)
(***************************************************************************)
Parses(f) == f.outcome \in {"gbk", "utf8"}

ParsedIdx == {k \in 1..Len(files) : Parses(files[k])}

\* the number of rows of the files before file k that parse
RECURSIVE RowsBefore(_)
RowsBefore(k) ==
    IF k <= 1 THEN 0
    ELSE RowsBefore(k - 1)
         + (IF Parses(files[k - 1]) THEN Len(files[k - 1].rows) ELSE 0)

TotalRows == RowsBefore(Len(files) + 1)

UnifiedColumns == UNION {Range(files[k].columns) : k \in ParsedIdx}

\* the raw cell of row i of the unified table, read from the file that holds it
RawCell(i, c) ==
    LET k == CHOOSE k \in ParsedIdx :
                 RowsBefore(k) < i /\ i <= RowsBefore(k) + Len(files[k].rows)
    IN  IF c \in Range(files[k].columns) THEN files[k].rows[i - RowsBefore(k)][c]
        ELSE Blank(c)

\* the nearest non-blank raw cell at or above row i, blank when there is none
FilledCell(i, c) ==
    LET above == {j \in 1..i : RawCell(j, c) # Blank(c)}
    IN  IF above = {} THEN Blank(c)
        ELSE RawCell(CHOOSE j \in above : \A j2 \in above : j2 <= j, c)

\* some file fails to decode under GBK and then fails again under UTF-8
SomeUndecodable == \E k \in 1..Len(files) : files[k].outcome = "undecodable"

\* main returns early: invalid folder, or an empty unified table
EarlyExitCase == ~folderOk \/ (~SomeUndecodable /\ TotalRows = 0)

Terminal == pc \in {"exit", "done", "raised"}

Logged(level, about) == \E i \in DOMAIN log : log[i] = [level |-> level, about |-> about]

(***************************************************************************)
(* Properties of the pipeline, checked under Spec.                         *)
(***************************************************************************)

\* C2: a file that fails to parse, whatever the failure, is logged with its
\* name and skipped, never aborts ingestion, and the result holds exactly
\* the rows of the files that parsed.
C2_FailuresIsolated ==
    /\ ~(pc = "raised" /\ error = "UnicodeDecodeError")
    /\ pc = "merged" =>
        /\ \A k \in 1..Len(files) : ~Parses(files[k]) => Logged("ERROR", files[k].name)
        /\ Len(df_raw.rows) = TotalRows

\* main got a non-empty unified table from merge_files
NonEmptyCase == folderOk /\ ~SomeUndecodable /\ TotalRows > 0

C4_FillAsStated ==
    views.returned =>
        /\ Len(views.report.rows) = TotalRows
        /\ \A i \in 1..TotalRows : \A c \in Range(fields_to_fill) :
              LET v == FilledCell(i, c)
              IN  IF c # "Date" THEN views.report.rows[i][c] = v
                  ELSE IF v = Blank(c) THEN views.report.rows[i][c] = NaT.date
                  ELSE IF to_datetime(v) # NaT
                       THEN views.report.rows[i][c] = to_datetime(v).date
                       ELSE views.report.rows[i][c] = v

\* C4 amended: POS Name, Cashier Name and Transaction No hold the
\* forward-filled raw value; Date holds the calendar date of the parsed
\* forward-filled raw value and DateTime its timestamp, both NaT when that
\* value is blank or does not parse.
C4_FillAmended ==
    views.returned =>
        /\ Len(views.report.rows) = TotalRows
        /\ \A i \in 1..TotalRows :
              /\ \A c \in {"POS Name", "Cashier Name", "Transaction No"} :
                    views.report.rows[i][c] = FilledCell(i, c)
              /\ views.report.rows[i]["DateTime"] = to_datetime(FilledCell(i, "Date"))
              /\ views.report.rows[i]["Date"] = to_datetime(FilledCell(i, "Date")).date

C4_Witness ==
    /\ views.returned
    /\ TotalRows >= 3
    /\ RawCell(1, "POS Name") = "POS1"
    /\ RawCell(2, "POS Name") = "POS2"
    /\ RawCell(3, "POS Name") = "NaN"
    /\ views.report.rows[3]["POS Name"] = "POS2"
    /\ RawCell(3, "Date") = "Total"
    /\ views.report.rows[3]["Date"] = "NaT"

\* C5: the transaction view holds one row per distinct OR No of the
\* reconciled table, the first row carrying it, in the original order,
\* without the Dishes and Dish Quantities columns.
C5_TransactionView ==
    views.returned =>
        LET r == views.report
            t == views.transactions
            firsts == {i \in 1..Len(r.rows) :
                          \A j \in 1..(i - 1) : r.rows[j]["OR No"] # r.rows[i]["OR No"]}
            nth(k) == CHOOSE i \in firsts : Cardinality({j \in firsts : j <= i}) = k
        IN  /\ t.columns = SelectSeq(r.columns,
                               LAMBDA c : c \notin {"Dishes", "Dish Quantities"})
            /\ Len(t.rows) = Cardinality({r.rows[i]["OR No"] : i \in 1..Len(r.rows)})
            /\ \A k \in 1..Len(t.rows) :
                  t.rows[k] = [c \in Range(t.columns) |-> r.rows[nth(k)][c]]

C5_Witness ==
    /\ views.returned
    /\ Len(views.report.rows) = 3
    /\ views.report.rows[1]["OR No"] = "1"
    /\ views.report.rows[2]["OR No"] = "2"
    /\ views.report.rows[3]["OR No"] = "1"
    /\ views.report.rows[3] # views.report.rows[1]
    /\ Len(views.transactions.rows) = 2

\* C6: the item view has the rows of the reconciled table, one for one and
\* in order, under exactly the eight item columns in their fixed order.
C6_ItemView ==
    views.returned =>
        LET r == views.report
            d == views.dishes
        IN  /\ d.columns = <<"OR No", "DateTime", "Date", "POS Name", "Cashier Name",
                             "Transaction No", "Dishes", "Dish Quantities">>
            /\ Len(d.rows) = Len(r.rows)
            /\ \A i \in 1..Len(d.rows) :
                  /\ DOMAIN d.rows[i] = Range(d.columns)
                  /\ \A c \in DOMAIN d.rows[i] : d.rows[i][c] = r.rows[i][c]

C6_Witness ==
    /\ views.returned
    /\ Len(views.dishes.rows) = 3
    /\ views.report.rows[1]["OR No"] = views.report.rows[2]["OR No"]
    /\ "Amount" \in Range(views.report.columns)

\* C7: a non-empty unified table that lacks one of the item view's columns
\* makes process_report raise: no view is returned, the exporter is not
\* called and no workbook is written.
C7_MissingColumnFatal ==
    (folderOk /\ ~SomeUndecodable /\ TotalRows > 0
        /\ ~(RequiredColumns \subseteq UnifiedColumns)) =>
        /\ ~views.returned
        /\ ~workbook.written
        /\ pc \in {"main", "merge_files", "merged", "raised"}
        /\ pc = "raised" => error = "KeyError"

C7_Witness ==
    /\ pc = "raised"
    /\ error = "KeyError"
    /\ TotalRows > 0
    /\ RequiredColumns \ UnifiedColumns = {"Dishes"}

\* C9: the table merge_files returns holds the rows of the files that
\* parsed, in glob order and then row order, none dropped, each under its
\* own columns and blank elsewhere; a file is read under UTF-8 only right
\* after its GBK read failed to decode, and a file that parses under GBK is
\* read once.
C9_Unified ==
    /\ pc = "merged" =>
        /\ Len(df_raw.rows) = TotalRows
        /\ Range(df_raw.columns) = UnifiedColumns
        /\ \A i \in 1..Len(df_raw.columns) : \A j \in 1..Len(df_raw.columns) :
              df_raw.columns[i] = df_raw.columns[j] => i = j
        /\ \A i \in 1..TotalRows :
              /\ DOMAIN df_raw.rows[i] = UnifiedColumns
              /\ \A c \in UnifiedColumns : df_raw.rows[i][c] = RawCell(i, c)
    /\ \A i \in DOMAIN reads :
          reads[i].encoding = "utf-8" =>
              /\ i > 1
              /\ reads[i - 1] = [file |-> reads[i].file, encoding |-> "gbk"]
              /\ \E k \in 1..Len(files) :
                    /\ files[k].name = reads[i].file
                    /\ files[k].outcome \in {"utf8", "undecodable"}
    /\ \A k \in 1..Len(files) :
          files[k].outcome = "gbk" =>
              /\ Cardinality({i \in DOMAIN reads : reads[i].file = files[k].name}) <= 1
              /\ pc = "merged" =>
                    Cardinality({i \in DOMAIN reads : reads[i].file = files[k].name}) = 1

C9_Witness ==
    /\ pc = "merged"
    /\ Len(files) = 2
    /\ files[1].outcome = "utf8"
    /\ files[2].outcome = "gbk"
    /\ Len(files[1].rows) = 1
    /\ files[2].rows = files[1].rows
    /\ Len(df_raw.rows) = 2

====
